---- MODULE Spec2Model ----
(***************************************************************************)
(* The fly camera of crates/camera_3d_controller (flycam.rs): the binding  *)
(* table, the evaluation of one rule against a frame's input snapshot and  *)
(* the application of its action to the camera's speed and transform.      *)
(*                                                                         *)
(* Numbers.  `speed` is an f32 and is kept as one: a speed is the integer  *)
(* whose magnitude is the IEEE-754 binary32 bit pattern of |speed| and     *)
(* whose sign is the sign of the speed.  x * sum (SetSpeed) is the f32     *)
(* product, (speed.ln() + x * sum).exp() is read from a table of the f32   *)
(* results.  Condition values (1.0, summed event deltas) are small         *)
(* integers, exact in f32.  A translation is a sum of displacements        *)
(* coef * speed * (rotation * axis); it is kept as that formal sum, one    *)
(* integer coefficient vector per (speed, orientation), so the roundings   *)
(* of + and * on translations are not modelled.  Angles are counted in     *)
(* units of 0.002 rad plus whole multiples of pi.  Time is counted in      *)
(* 1/OneSecond s.                                                          *)
(***************************************************************************)
EXTENDS Integers, Sequences, FiniteSets, TLC

\* ------------------------------------------------------------------ bounds

\* Frames run in one behaviour.
MaxFrames == 2

\* Frames of the spring arm run in one behaviour.
MaxTicks == 3

\* ------------------------------------------------------------ f32 numbers

\* The literal 1.0 of the frame-time factor, in time units: delta_seconds
\* is counted in 1/OneSecond s.
OneSecond == 64

Abs(n) == IF n < 0 THEN -n ELSE n
Sign(n) == IF n < 0 THEN -1 ELSE IF n > 0 THEN 1 ELSE 0

TwoTo23 == 8388608
TwoTo24 == 16777216
\* The bit pattern of the default quiet NaN.
F32NaN == 2143289344

RECURSIVE F32Normalize(_, _, _)
\* mant * 2^exp with mant > 0 as a binary32: the mantissa is brought into
\* [2^23, 2^24), halving rounds to nearest, ties to even (`sticky` holds
\* whether a 1 was already shifted out).
F32Normalize(mant, exp, sticky) ==
    IF mant < TwoTo23 THEN F32Normalize(mant * 2, exp - 1, sticky)
    ELSE IF mant >= 2 * TwoTo24
        THEN F32Normalize(mant \div 2, exp + 1, sticky \/ (mant % 2 = 1))
    ELSE IF mant >= TwoTo24
        THEN LET half == mant \div 2
                 up == (mant % 2 = 1) /\ (sticky \/ (half % 2 = 1))
             IN  F32Normalize(half + (IF up THEN 1 ELSE 0), exp + 1, FALSE)
    ELSE (exp + 150) * TwoTo23 + (mant - TwoTo23)

\* The binary32 m * 2^e, for an integer m.
F32(m, e) == IF m = 0 THEN 0 ELSE Sign(m) * F32Normalize(Abs(m), e, FALSE)

\* x * sum in f32, for a finite x and an integer sum.
F32MulInt(x, sum) ==
    IF x = 0 \/ sum = 0 THEN 0
    ELSE LET b == Abs(x)
             mant == (b % TwoTo23) + TwoTo23
             exp == (b \div TwoTo23) - 150
         IN  Sign(x) * Sign(sum) * F32Normalize(mant * Abs(sum), exp, FALSE)

\* The binary32 results of (s.ln() + 0.05 * d).exp(), as rows <<s, d, result>>
\* of bit patterns, for the positive speeds s and the log-deltas 0.05 * d the
\* model reaches (round to nearest; logf and expf as in glibc).  ChangeSpeed
\* is given its parameter x in units of 0.05, so that x * sum = 0.05 * d with
\* d = x * sum.
ExpLnRows ==
    {
      <<1028757593, 0, 1028757593>>, <<1029461854, 2, 1030980550>>, <<1029461854, 0, 1029461854>>,
      <<1029461854, -1, 1028757593>>, <<1030202222, 2, 1031798784>>, <<1030202222, 0, 1030202222>>,
      <<1030202222, -1, 1029461854>>, <<1030980550, 2, 1032228877>>, <<1030980550, 0, 1030980550>>,
      <<1030980550, -1, 1030202222>>, <<1031798784, 8, 1035924510>>, <<1031798784, 7, 1035314176>>,
      <<1031798784, 6, 1034733612>>, <<1031798784, 5, 1034181362>>, <<1031798784, 4, 1033656045>>,
      <<1031798784, 3, 1033156349>>, <<1031798784, 2, 1032681021>>, <<1031798784, 1, 1032228877>>,
      <<1031798784, 0, 1031798784>>, <<1031798784, -1, 1030980550>>, <<1031798784, -2, 1030202222>>,
      <<1031798784, -3, 1029461850>>, <<1031798784, -4, 1028757590>>, <<1032228877, 2, 1033156347>>,
      <<1032228877, 0, 1032228877>>, <<1032228877, -1, 1031798784>>, <<1032681021, 2, 1033656043>>,
      <<1032681021, 0, 1032681021>>, <<1032681021, -1, 1032228877>>, <<1033156347, 2, 1034181359>>,
      <<1033156347, 0, 1033156347>>, <<1033156347, -1, 1032681021>>, <<1033656043, 2, 1034733609>>,
      <<1033656043, 0, 1033656043>>, <<1033656043, -1, 1033156347>>, <<1034181359, 0, 1034181359>>,
      <<1034398996, 0, 1034398996>>, <<1034733609, 2, 1035924504>>, <<1034733609, 0, 1034733609>>,
      <<1034733609, -1, 1034181359>>, <<1034962404, 2, 1036177361>>, <<1034962404, 0, 1034962404>>,
      <<1034962404, -1, 1034398996>>, <<1035554699, 2, 1036831948>>, <<1035554699, 0, 1035554699>>,
      <<1035554699, -1, 1034962404>>, <<1035924504, 0, 1035924504>>, <<1036177361, 2, 1037520097>>,
      <<1036177361, 0, 1036177361>>, <<1036177361, -1, 1035554699>>, <<1036831948, 2, 1038243527>>,
      <<1036831948, 0, 1036831948>>, <<1036831948, -1, 1036177361>>, <<1036831949, 8, 1041810250>>,
      <<1036831949, 7, 1041321985>>, <<1036831949, 6, 1040857532>>, <<1036831949, 5, 1040415732>>,
      <<1036831949, 4, 1039803567>>, <<1036831949, 3, 1039004052>>, <<1036831949, 2, 1038243527>>,
      <<1036831949, 1, 1037520097>>, <<1036831949, 0, 1036831948>>, <<1036831949, -1, 1036177361>>,
      <<1036831949, -2, 1035554699>>, <<1036831949, -3, 1034962401>>, <<1036831949, -4, 1034398993>>,
      <<1037520097, 2, 1039004049>>, <<1037520097, 0, 1037520097>>, <<1037520097, -1, 1036831948>>,
      <<1038243527, 2, 1039803563>>, <<1038243527, 0, 1038243527>>, <<1038243527, -1, 1037520097>>,
      <<1039004049, 2, 1040415730>>, <<1039004049, 0, 1039004049>>, <<1039004049, -1, 1038243527>>,
      <<1039803563, 2, 1040857530>>, <<1039803563, 0, 1039803563>>, <<1039803563, -1, 1039004049>>,
      <<1040415730, 0, 1040415730>>, <<1040857530, 2, 1041810247>>, <<1040857530, 0, 1040857530>>,
      <<1040857530, -1, 1040415730>>, <<1041810247, 0, 1041810247>>, <<1048772408, 0, 1048772408>>,
      <<1049212571, 2, 1050161757>>, <<1049212571, 0, 1049212571>>, <<1049212571, -1, 1048772408>>,
      <<1049675301, 2, 1050673153>>, <<1049675301, 0, 1049675301>>, <<1049675301, -1, 1049212571>>,
      <<1050161756, 2, 1051210769>>, <<1050161756, 0, 1050161756>>, <<1050161756, -1, 1049675301>>,
      <<1050161757, 0, 1050161757>>, <<1050673152, 8, 1055830308>>, <<1050673152, 7, 1055067394>>,
      <<1050673152, 6, 1054341688>>, <<1050673152, 5, 1053651375>>, <<1050673152, 4, 1052994728>>,
      <<1050673152, 3, 1052370107>>, <<1050673152, 2, 1051775950>>, <<1050673152, 1, 1051210768>>,
      <<1050673152, 0, 1050673152>>, <<1050673152, -1, 1050161756>>, <<1050673152, -2, 1049675300>>,
      <<1050673152, -3, 1049212570>>, <<1050673152, -4, 1048772406>>, <<1050673153, 2, 1051775951>>,
      <<1050673153, 0, 1050673153>>, <<1050673153, -1, 1050161757>>, <<1051210769, 2, 1052370108>>,
      <<1051210769, 0, 1051210769>>, <<1051210769, -1, 1050673153>>, <<1051775950, 2, 1052994729>>,
      <<1051775950, 0, 1051775950>>, <<1051775950, -1, 1051210769>>, <<1051775951, 0, 1051775951>>,
      <<1052370108, 2, 1053651376>>, <<1052370108, 0, 1052370108>>, <<1052370108, -1, 1051775951>>,
      <<1052994729, 2, 1054341689>>, <<1052994729, 0, 1052994729>>, <<1052994729, -1, 1052370108>>,
      <<1053651375, 0, 1053651375>>, <<1053651376, 0, 1053651376>>, <<1053923414, 0, 1053923414>>,
      <<1054341689, 2, 1055830310>>, <<1054341689, 0, 1054341689>>, <<1054341689, -1, 1053651375>>,
      <<1054627675, 2, 1056146373>>, <<1054627675, 0, 1054627675>>, <<1054627675, -1, 1053923414>>,
      <<1055368044, 2, 1056964608>>, <<1055368044, 0, 1055368044>>, <<1055368044, -1, 1054627675>>,
      <<1055830310, 0, 1055830310>>, <<1056146373, 2, 1057394701>>, <<1056146373, 0, 1056146373>>,
      <<1056146373, -1, 1055368044>>, <<1056964608, 8, 1061090333>>, <<1056964608, 7, 1060480001>>,
      <<1056964608, 6, 1059899437>>, <<1056964608, 5, 1059347186>>, <<1056964608, 4, 1058821869>>,
      <<1056964608, 3, 1058322172>>, <<1056964608, 2, 1057846846>>, <<1056964608, 1, 1057394701>>,
      <<1056964608, 0, 1056964608>>, <<1056964608, -1, 1056146373>>, <<1056964608, -2, 1055368044>>,
      <<1056964608, -3, 1054627676>>, <<1056964608, -4, 1053923415>>, <<1057394701, 2, 1058322172>>,
      <<1057394701, 0, 1057394701>>, <<1057394701, -1, 1056964608>>, <<1057846845, 0, 1057846845>>,
      <<1057846846, 2, 1058821869>>, <<1057846846, 0, 1057846846>>, <<1057846846, -1, 1057394701>>,
      <<1058322172, 2, 1059347186>>, <<1058322172, 0, 1058322172>>, <<1058322172, -1, 1057846845>>,
      <<1058821869, 2, 1059899437>>, <<1058821869, 0, 1058821869>>, <<1058821869, -1, 1058322172>>,
      <<1059347186, 0, 1059347186>>, <<1059899437, 2, 1061090333>>, <<1059899437, 0, 1059899437>>,
      <<1059899437, -1, 1059347186>>, <<1061090333, 0, 1061090333>>, <<1062312023, 0, 1062312023>>,
      <<1063016284, 2, 1064534982>>, <<1063016284, 0, 1063016284>>, <<1063016284, -1, 1062312023>>,
      <<1063756653, 2, 1065353216>>, <<1063756653, 0, 1063756653>>, <<1063756653, -1, 1063016284>>,
      <<1064534982, 2, 1065783309>>, <<1064534982, 0, 1064534982>>, <<1064534982, -1, 1063756653>>,
      <<1064534983, 0, 1064534983>>, <<1065353216, 8, 1069478941>>, <<1065353216, 7, 1068868609>>,
      <<1065353216, 6, 1068288045>>, <<1065353216, 5, 1067735794>>, <<1065353216, 4, 1067210477>>,
      <<1065353216, 3, 1066710780>>, <<1065353216, 2, 1066235454>>, <<1065353216, 1, 1065783309>>,
      <<1065353216, 0, 1065353216>>, <<1065353216, -1, 1064534982>>, <<1065353216, -2, 1063756653>>,
      <<1065353216, -3, 1063016284>>, <<1065353216, -4, 1062312023>>, <<1065353217, 2, 1066235455>>,
      <<1065353217, 0, 1065353217>>, <<1065353217, -1, 1064534983>>, <<1065783309, 2, 1066710780>>,
      <<1065783309, 0, 1065783309>>, <<1065783309, -1, 1065353216>>, <<1065783310, 2, 1066710781>>,
      <<1065783310, 0, 1065783310>>, <<1065783310, -1, 1065353217>>, <<1066235454, 2, 1067210477>>,
      <<1066235454, 0, 1066235454>>, <<1066235454, -1, 1065783310>>, <<1066235455, 0, 1066235455>>,
      <<1066710780, 2, 1067735794>>, <<1066710780, 0, 1066710780>>, <<1066710780, -1, 1066235454>>,
      <<1066710781, 2, 1067735795>>, <<1066710781, 0, 1066710781>>, <<1066710781, -1, 1066235455>>,
      <<1067210477, 2, 1068288045>>, <<1067210477, 0, 1067210477>>, <<1067210477, -1, 1066710780>>,
      <<1067266624, 0, 1067266624>>, <<1067735794, 0, 1067735794>>, <<1067735795, 0, 1067735795>>,
      <<1067794820, 2, 1068933843>>, <<1067794820, 0, 1067794820>>, <<1067794820, -1, 1067266624>>,
      <<1068288045, 2, 1069478941>>, <<1068288045, 0, 1068288045>>, <<1068288045, -1, 1067735794>>,
      <<1068350097, 2, 1069547519>>, <<1068350097, 0, 1068350097>>, <<1068350097, -1, 1067794820>>,
      <<1068933843, 0, 1068933843>>, <<1068933844, 2, 1070192659>>, <<1068933844, 0, 1068933844>>,
      <<1068933844, -1, 1068350097>>, <<1069478941, 0, 1069478941>>, <<1069547519, 2, 1070870875>>,
      <<1069547519, 0, 1069547519>>, <<1069547519, -1, 1068933843>>, <<1069547520, 8, 1074738965>>,
      <<1069547520, 7, 1074281217>>, <<1069547520, 6, 1073845793>>, <<1069547520, 5, 1073121387>>,
      <<1069547520, 4, 1072333412>>, <<1069547520, 3, 1071583866>>, <<1069547520, 2, 1070870876>>,
      <<1069547520, 1, 1070192660>>, <<1069547520, 0, 1069547520>>, <<1069547520, -1, 1068933844>>,
      <<1069547520, -2, 1068350098>>, <<1069547520, -3, 1067794821>>, <<1069547520, -4, 1067266625>>,
      <<1070192659, 2, 1071583865>>, <<1070192659, 0, 1070192659>>, <<1070192659, -1, 1069547519>>,
      <<1070870875, 0, 1070870875>>, <<1070870876, 2, 1072333412>>, <<1070870876, 0, 1070870876>>,
      <<1070870876, -1, 1070192659>>, <<1070870877, 0, 1070870877>>, <<1071583865, 2, 1073121386>>,
      <<1071583865, 0, 1071583865>>, <<1071583865, -1, 1070870875>>, <<1071583867, 2, 1073121388>>,
      <<1071583867, 0, 1071583867>>, <<1071583867, -1, 1070870877>>, <<1072333412, 2, 1073845794>>,
      <<1072333412, 0, 1072333412>>, <<1072333412, -1, 1071583867>>, <<1073121386, 0, 1073121386>>,
      <<1073121388, 0, 1073121388>>, <<1073845794, 2, 1074738967>>, <<1073845794, 0, 1073845794>>,
      <<1073845794, -1, 1073121388>>, <<1074738967, 0, 1074738967>>
    }

\* (speed.ln() + x * sum).exp() in f32, with d = x * sum in units of 0.05:
\* ln of a negative number or of NaN is NaN, ln(0) is -inf and exp(-inf) is 0.
F32ExpLnAdd(speed, d) ==
    IF speed = F32NaN \/ speed < 0 THEN F32NaN
    ELSE IF speed = 0 THEN 0
    ELSE (CHOOSE row \in ExpLnRows : row[1] = speed /\ row[2] = d)[3]

\* ------------------------------------------------------- vectors and angles

Zero3 == <<0, 0, 0>>
Add3(a, b) == <<a[1] + b[1], a[2] + b[2], a[3] + b[3]>>
Scale3(a, n) == <<a[1] * n, a[2] * n, a[3] * n>>
Add2(a, b) == <<a[1] + b[1], a[2] + b[2]>>

RECURSIVE SumVec2(_)
\* events.read().map(..).sum::<Vec2>()
SumVec2(events) ==
    IF events = <<>> THEN <<0, 0>>
    ELSE Add2(Head(events), SumVec2(Tail(events)))

\* An angle <<u, p>> is u * 0.002 rad + p * pi.
Angle0 == <<0, 0>>
AngleAddUnits(a, u) == <<a[1] + u, a[2]>>
AngleAddPi(a, p) == <<a[1], a[2] + p>>
AngleNeg(a) == <<-a[1], -a[2]>>
\* a > h * pi / 2.  pi / 2 = 785.398163... units of 0.002 rad, and 1000 * u
\* is no multiple of 785398 for the u below 785398, so the strict comparison
\* of integers decides it.
GtHalfPi(a, h) == 1000 * a[1] > 785398 * (h - 2 * a[2])

RECURSIVE WrapPi(_)
\* The angle in (-pi, pi] that differs from a by a multiple of 2 pi.
WrapPi(a) ==
    IF GtHalfPi(a, 2) THEN WrapPi(AngleAddPi(a, -2))
    ELSE IF ~GtHalfPi(a, -2) THEN WrapPi(AngleAddPi(a, 2))
    ELSE a

\* A rotation is kept as the Euler angles <<yaw, pitch, roll>> it was built
\* from (Quat::from_euler, EulerRot::YXZ).  to_euler gives the angles of the
\* same orientation with pitch in [-pi/2, pi/2] (asin) and yaw and roll in
\* (-pi, pi] (atan2): a pitch beyond a right angle comes back as its
\* supplement, with yaw and roll turned by pi.
ToEuler(rotation) ==
    LET pitch == WrapPi(rotation[2])
        flipped == GtHalfPi(pitch, 1) \/ GtHalfPi(AngleNeg(pitch), 1)
    IN  IF flipped
        THEN << WrapPi(AngleAddPi(rotation[1], 1)),
                IF GtHalfPi(pitch, 1)
                    THEN AngleAddPi(AngleNeg(pitch), 1)
                    ELSE AngleAddPi(AngleNeg(pitch), -1),
                WrapPi(AngleAddPi(rotation[3], 1)) >>
        ELSE << WrapPi(rotation[1]), pitch, WrapPi(rotation[3]) >>

\* Quat::from_euler(EulerRot::default(), e.x, e.y, e.z)
FromEuler(e) == e

QuatIdentity == <<Angle0, Angle0, Angle0>>

\* A translation is the formal sum of its terms c * speed * (R * e_i): a
\* function from the keys <<speed, orientation>> to the integer vectors c
\* (in 1/OneSecond), without the keys whose vector is zero.  A speed of 0
\* contributes nothing.
TranslationZero == << >>

AddTerm(translation, speed, orientation, vec) ==
    LET key == <<speed, orientation>>
        old == IF key \in DOMAIN translation THEN translation[key] ELSE Zero3
        new == Add3(old, vec)
        keys == IF new = Zero3 THEN DOMAIN translation \ {key}
                ELSE DOMAIN translation \cup {key}
    IN  IF speed = 0 \/ vec = Zero3 THEN translation
        ELSE [k \in keys |-> IF k = key THEN new ELSE translation[k]]

\* --------------------------------------------------------- the binding table

\* FlyCameraInput
KeyCodeInput(k, first_frame) ==
    [tag |-> "KeyCode", key |-> k, first_frame |-> first_frame]
MouseButtonInput(b, first_frame) ==
    [tag |-> "MouseButton", key |-> b, first_frame |-> first_frame]
MouseMoveX == [tag |-> "MouseMoveX", key |-> "", first_frame |-> FALSE]
MouseMoveY == [tag |-> "MouseMoveY", key |-> "", first_frame |-> FALSE]
ScrollX == [tag |-> "ScrollX", key |-> "", first_frame |-> FALSE]
ScrollY == [tag |-> "ScrollY", key |-> "", first_frame |-> FALSE]

\* FlyCameraAction.  The Vec3 of RotateEuler is in units of 0.002 rad, the
\* f32 of ChangeSpeed in units of 0.05, the f32 of SetSpeed a binary32.
MoveLocal(v) == [tag |-> "MoveLocal", v |-> v, x |-> 0]
MoveGlobal(v) == [tag |-> "MoveGlobal", v |-> v, x |-> 0]
RotateEuler(v) == [tag |-> "RotateEuler", v |-> v, x |-> 0]
ChangeSpeed(x) == [tag |-> "ChangeSpeed", v |-> Zero3, x |-> x]
SetSpeed(x) == [tag |-> "SetSpeed", v |-> Zero3, x |-> x]

Rule(input, action) == [input |-> input, action |-> action]

X3 == <<1, 0, 0>>
Y3 == <<0, 1, 0>>
Z3 == <<0, 0, 1>>
NEG_X == <<-1, 0, 0>>
NEG_Y == <<0, -1, 0>>
NEG_Z == <<0, 0, -1>>

\* impl Default for FlyCameraInputs
FlyCameraInputsDefault ==
    <<
    Rule(<<KeyCodeInput("Z", FALSE)>>, MoveLocal(NEG_Z)),
    Rule(<<KeyCodeInput("S", FALSE)>>, MoveLocal(Z3)),
    Rule(<<KeyCodeInput("Q", FALSE)>>, MoveLocal(NEG_X)),
    Rule(<<KeyCodeInput("D", FALSE)>>, MoveLocal(X3)),
    Rule(<<KeyCodeInput("ControlLeft", FALSE)>>, MoveLocal(NEG_Y)),
    Rule(<<KeyCodeInput("Space", FALSE)>>, MoveLocal(Y3)),

    Rule(<<KeyCodeInput("Z", FALSE), KeyCodeInput("ShiftLeft", FALSE)>>,
         MoveLocal(Scale3(NEG_Z, 2))),
    Rule(<<KeyCodeInput("S", FALSE), KeyCodeInput("ShiftLeft", FALSE)>>,
         MoveLocal(Scale3(Z3, 2))),
    Rule(<<KeyCodeInput("Q", FALSE), KeyCodeInput("ShiftLeft", FALSE)>>,
         MoveLocal(Scale3(NEG_X, 2))),
    Rule(<<KeyCodeInput("D", FALSE), KeyCodeInput("ShiftLeft", FALSE)>>,
         MoveLocal(Scale3(X3, 2))),
    Rule(<<KeyCodeInput("ControlLeft", FALSE), KeyCodeInput("ShiftLeft", FALSE)>>,
         MoveLocal(Scale3(NEG_Y, 2))),
    Rule(<<KeyCodeInput("Space", FALSE), KeyCodeInput("ShiftLeft", FALSE)>>,
         MoveLocal(Scale3(Y3, 2))),

    Rule(<<KeyCodeInput("W", TRUE)>>, MoveLocal(Scale3(NEG_Z, 5))),

    Rule(<<MouseMoveX, MouseButtonInput("Right", FALSE)>>,
         RotateEuler(Scale3(X3, -1))),
    Rule(<<MouseMoveY, MouseButtonInput("Right", FALSE)>>,
         RotateEuler(Scale3(Y3, -1))),

    Rule(<<ScrollY>>, ChangeSpeed(-1)),

    Rule(<<KeyCodeInput("Key0", TRUE)>>, SetSpeed(F32(5, -4))),
    Rule(<<KeyCodeInput("Key1", TRUE)>>, SetSpeed(F32(1, -4))),
    Rule(<<KeyCodeInput("Key2", TRUE)>>, SetSpeed(F32(1, -3))),
    Rule(<<KeyCodeInput("Key3", TRUE)>>, SetSpeed(F32(1, -2))),
    Rule(<<KeyCodeInput("Key4", TRUE)>>, SetSpeed(F32(1, -1))),
    Rule(<<KeyCodeInput("Key5", TRUE)>>, SetSpeed(F32(1, 0))),
    Rule(<<KeyCodeInput("Key6", TRUE)>>, SetSpeed(F32(1, 1))),
    Rule(<<KeyCodeInput("Key7", TRUE)>>, SetSpeed(F32(1, 2))),
    Rule(<<KeyCodeInput("Key8", TRUE)>>, SetSpeed(F32(1, 3))),
    Rule(<<KeyCodeInput("Key9", TRUE)>>, SetSpeed(F32(1, 4)))
    >>

\* A second table `inputs` may hold (the field is public data): the variants
\* and the shapes of condition set the default table does not use.
FlyCameraInputsCustom ==
    <<
    Rule(<<MouseButtonInput("Right", TRUE), KeyCodeInput("Z", FALSE)>>,
         MoveGlobal(X3)),
    Rule(<<KeyCodeInput("ShiftLeft", FALSE), KeyCodeInput("W", TRUE)>>,
         MoveLocal(Z3)),
    Rule(<<KeyCodeInput("Z", FALSE)>>, MoveLocal(NEG_Z)),
    Rule(<<KeyCodeInput("Z", FALSE), ScrollX>>, MoveGlobal(Y3)),
    Rule(<<ScrollY, ScrollX>>, MoveGlobal(Z3)),
    Rule(<<MouseMoveY, MouseMoveX>>, RotateEuler(Z3)),
    Rule(<<MouseMoveX, KeyCodeInput("Key1", FALSE)>>, SetSpeed(F32(1, -1))),
    Rule(<<ScrollY, KeyCodeInput("Key0", FALSE)>>, ChangeSpeed(-1))
    >>

\* ------------------------------------------------------------------- state

\* The entities that carry a FlyCameraController and a Transform.
Cameras == {"default", "custom"}

\* The keys and buttons the keyboard and the mouse of the model have.
KeyCodes == {"Z", "ShiftLeft", "W", "Key0", "Key1"}
MouseButtons == {"Right"}

\* What one frame's MouseMotion events, MouseWheel events and frame time may
\* be: a quiet frame, a small pointer move, one scroll notch, and a long
\* frame with two events of each kind (a large pointer move among them).
Frame(mouse, wheel, delta) == [mouse |-> mouse, wheel |-> wheel, delta |-> delta]
FrameChoices ==
    { Frame(<<>>, <<>>, 1),
      Frame(<< <<1, 2>> >>, <<>>, 1),
      Frame(<<>>, << <<0, 1>> >>, 1),
      Frame(<< <<1, 0>>, <<2, 800>> >>, << <<1, -1>>, <<0, -1>> >>, 2) }

VARIABLES
    frame,          \* frames run so far
    phase,          \* "input": the engine collects input; "update": Update runs
    keycodes,       \* Res<Input<KeyCode>>: [pressed, just_pressed]
    buttons,        \* Res<Input<MouseButton>>: [pressed, just_pressed]
    mouse_events,   \* the MouseMotion events the reader has not read
    wheel_events,   \* the MouseWheel events the reader has not read
    delta_seconds,  \* Time::delta_seconds(), in 1/OneSecond s
    cameras,        \* entity -> [controller: [speed, inputs], transform: [translation, rotation]]
    held_for,       \* key or button -> frames it has been down without a break
    mouse_delta,    \* let mouse_delta: the sum the last frame took
    wheel_delta,    \* let wheel_delta: the sum the last frame took
    speed_trail,    \* entity -> the speed its last SetSpeed left (or its first speed) and
                    \*           the log-deltas, in units of 0.05, ChangeSpeed added since
    before,         \* entity -> its speed, translation and rotation when the frame began
    log             \* entity -> per rule of the last frame, what the loop body did

\* The spring arm of crates/camera_spring_arm (lib.rs): one entity with the
\* components of CameraSpringArmBundle, the five systems of the plugin and
\* the shape cast that answers the entity's ShapeCaster.
VARIABLES
    arm_tick,           \* the frame PostUpdate is in (0 before the first)
    arm_pc,             \* the place in the chain that runs next; 6 after the last
    camera_spring_arm,  \* CameraSpringArm: [distance]
    shape_caster,       \* ShapeCaster: [origin, direction, max_time_of_impact, max_hits]
    arm_transform,      \* Transform: [translation, forward]
    shape_hits,         \* ShapeHits: [present, hits]
    changed_spring_arm, \* places of the chain for which Changed<CameraSpringArm> holds
    changed_transform,  \* places of the chain for which Changed<Transform> holds
    obstacles,          \* the distances at which the world would stop the cast shape
    cast_done,          \* the shape cast has run in this frame
    answered,           \* the ShapeCaster and the obstacles the ShapeHits were computed from
    last_tick,          \* ShapeCaster, CameraSpringArm, Transform, obstacles when the last frame ended
    placed              \* what update_camera_spring_arm read and wrote in this frame

fly_vars == << frame, phase, keycodes, buttons, mouse_events, wheel_events,
               delta_seconds, cameras, held_for, mouse_delta,
               wheel_delta, speed_trail, before, log >>

arm_vars == << arm_tick, arm_pc, camera_spring_arm, shape_caster, arm_transform,
               shape_hits, changed_spring_arm, changed_transform, obstacles,
               cast_done, answered, last_tick, placed >>

vars == << fly_vars, arm_vars >>

\* ------------------------------------------------------ evaluating one rule

None == [some |-> FALSE, value |-> 0, first_frame |-> FALSE]
Some(value, first_frame) ==
    [some |-> TRUE, value |-> value, first_frame |-> first_frame]

\* A match that takes a key that is down for a key that went down this frame.
MatchPressed(input, key, first_frame) ==
    IF key \in input.pressed THEN Some(1, first_frame) ELSE None

\* The match on first_frame of a KeyCode or MouseButton condition:
\*   true if input.just_pressed(key) => { apply_delta = false; Some(1.0) }
\*   false if input.pressed(key) => Some(1.0),  _ => None
MatchFirstFrame(input, key, first_frame) ==
    IF first_frame /\ key \in input.just_pressed THEN Some(1, TRUE)
    ELSE IF ~first_frame /\ key \in input.pressed THEN Some(1, FALSE)
    ELSE None

\* The closure of the map: one condition's Option<f32>.
MapInput(cond, snap) ==
    CASE cond.tag = "KeyCode" ->
            MatchFirstFrame(snap.keycodes, cond.key, cond.first_frame)
      [] cond.tag = "MouseButton" ->
            MatchFirstFrame(snap.buttons, cond.key, cond.first_frame)
      [] cond.tag = "MouseMoveX" -> Some(snap.mouse_delta[1], FALSE)
      [] cond.tag = "MouseMoveY" -> Some(snap.mouse_delta[2], FALSE)
      [] cond.tag = "ScrollX" -> Some(snap.wheel_delta[1], FALSE)
      [] cond.tag = "ScrollY" -> Some(snap.wheel_delta[2], FALSE)

RECURSIVE ProductOfPresent(_, _, _, _, _)
\* A product that passes over the conditions that are None (a filter_map in
\* place of the product of Options).
ProductOfPresent(input, i, acc, apply_delta, snap) ==
    IF i > Len(input)
    THEN [some |-> TRUE, sum |-> acc, apply_delta |-> apply_delta]
    ELSE LET c == MapInput(input[i], snap)
         IN  IF ~c.some
             THEN ProductOfPresent(input, i + 1, acc, apply_delta, snap)
             ELSE ProductOfPresent(input, i + 1, acc * c.value,
                                   apply_delta /\ ~c.first_frame, snap)

RECURSIVE Product(_, _, _, _, _)
\* .product::<Option<f32>>() over the lazy map: the conditions from i on are
\* evaluated in order until one is None; apply_delta is cleared by each
\* edge-triggered condition evaluated on the way.
Product(input, i, acc, apply_delta, snap) ==
    IF i > Len(input)
    THEN [some |-> TRUE, sum |-> acc, apply_delta |-> apply_delta]
    ELSE LET c == MapInput(input[i], snap)
         IN  IF ~c.some
             THEN [some |-> FALSE, sum |-> 0, apply_delta |-> apply_delta]
             ELSE Product(input, i + 1, acc * c.value,
                          apply_delta /\ ~c.first_frame, snap)

\* An apply_delta declared outside the loop: each rule starts from the flag
\* the rule before it left.
ApplyDeltaKept(last) == last

\* let mut apply_delta = true; at the head of the loop body (`last` is the
\* flag as the previous rule left it).
ApplyDeltaInit(last) == TRUE

\* The factor of line 78: time.delta_seconds() or 1.0.
DeltaFactor(apply_delta, delta) == IF apply_delta THEN delta ELSE OneSecond

\* A scalar without the frame time: sum * controller.speed.
EffectiveSpeedUnscaled(sum, speed, apply_delta, delta) ==
    [coef |-> sum * OneSecond, speed |-> speed]

\* let speed = sum * controller.speed * factor: the pair of the integer
\* sum * factor (in 1/OneSecond) and the f32 it multiplies.
EffectiveSpeed(sum, speed, apply_delta, delta) ==
    [coef |-> sum * DeltaFactor(apply_delta, delta), speed |-> speed]

\* An assignment that drops the old translation:
\* transform.translation = transform.rotation * x * speed
MoveLocalOverwrite(cam, x, eff) ==
    AddTerm(TranslationZero, eff.speed, ToEuler(cam.rotation), Scale3(x, eff.coef))

\* transform.translation + transform.rotation * x * speed
MoveLocalTranslation(cam, x, eff) ==
    AddTerm(cam.translation, eff.speed, ToEuler(cam.rotation), Scale3(x, eff.coef))

\* transform.translation += x * speed
MoveGlobalTranslation(cam, x, eff) ==
    AddTerm(cam.translation, eff.speed, QuatIdentity, Scale3(x, eff.coef))

\* euler + x * sum, back through Quat::from_euler
RotateEulerRotation(cam, x, sum) ==
    LET euler == ToEuler(cam.rotation)
        new_euler == [i \in 1..3 |-> AngleAddUnits(euler[i], x[i] * sum)]
    IN  FromEuler(new_euler)

\* An exponential that leaves the old speed out: (x * sum).exp()
ChangeSpeedFromOne(speed, x, sum) == F32ExpLnAdd(F32(1, 0), x * sum)

\* (controller.speed.ln() + x * sum).exp()
ChangeSpeedValue(speed, x, sum) == F32ExpLnAdd(speed, x * sum)

\* The resolved value alone, without the target.
SetSpeedToSum(x, sum) == F32MulInt(F32(1, 0), sum)

\* x * sum
SetSpeedValue(x, sum) == F32MulInt(x, sum)

\* A match whose RotateEuler arm scales by `speed`, the scalar of line 76,
\* where the code scales by `sum`.
ApplyActionRotateBySpeed(cam, action, sum, apply_delta, delta) ==
    LET eff == EffectiveSpeed(sum, cam.speed, apply_delta, delta)
    IN  CASE action.tag = "MoveLocal" ->
                [cam EXCEPT !.translation = MoveLocalTranslation(cam, action.v, eff)]
          [] action.tag = "MoveGlobal" ->
                [cam EXCEPT !.translation = MoveGlobalTranslation(cam, action.v, eff)]
          [] action.tag = "RotateEuler" ->
                [cam EXCEPT !.rotation = RotateEulerRotation(cam, action.v, eff.coef)]
          [] action.tag = "ChangeSpeed" ->
                [cam EXCEPT !.speed = ChangeSpeedValue(cam.speed, action.x, sum)]
          [] action.tag = "SetSpeed" ->
                [cam EXCEPT !.speed = SetSpeedValue(action.x, sum)]

\* A RotateEuler that builds the whole transform anew, at the origin.
ApplyActionRotateResets(cam, action, sum, apply_delta, delta) ==
    LET eff == EffectiveSpeed(sum, cam.speed, apply_delta, delta)
    IN  CASE action.tag = "MoveLocal" ->
                [cam EXCEPT !.translation = MoveLocalTranslation(cam, action.v, eff)]
          [] action.tag = "MoveGlobal" ->
                [cam EXCEPT !.translation = MoveGlobalTranslation(cam, action.v, eff)]
          [] action.tag = "RotateEuler" ->
                [cam EXCEPT !.rotation = RotateEulerRotation(cam, action.v, sum),
                            !.translation = TranslationZero]
          [] action.tag = "ChangeSpeed" ->
                [cam EXCEPT !.speed = ChangeSpeedValue(cam.speed, action.x, sum)]
          [] action.tag = "SetSpeed" ->
                [cam EXCEPT !.speed = SetSpeedValue(action.x, sum)]

\* The match on the action, for a rule that resolved to `sum`.
ApplyAction(cam, action, sum, apply_delta, delta) ==
    LET eff == EffectiveSpeed(sum, cam.speed, apply_delta, delta)
    IN  CASE action.tag = "MoveLocal" ->
                [cam EXCEPT !.translation = MoveLocalTranslation(cam, action.v, eff)]
          [] action.tag = "MoveGlobal" ->
                [cam EXCEPT !.translation = MoveGlobalTranslation(cam, action.v, eff)]
          [] action.tag = "RotateEuler" ->
                [cam EXCEPT !.rotation = RotateEulerRotation(cam, action.v, sum)]
          [] action.tag = "ChangeSpeed" ->
                [cam EXCEPT !.speed = ChangeSpeedValue(cam.speed, action.x, sum)]
          [] action.tag = "SetSpeed" ->
                [cam EXCEPT !.speed = SetSpeedValue(action.x, sum)]

\* One pass of the loop body over rule (input, action): what it resolved to
\* and the camera it leaves.
RuleStep(cam, rule, last_apply_delta, snap) ==
    LET p == Product(rule.input, 1, 1, ApplyDeltaInit(last_apply_delta), snap)
    IN  IF ~p.some
        THEN [fired |-> FALSE, sum |-> 0, apply_delta |-> p.apply_delta,
              speed |-> [coef |-> 0, speed |-> cam.speed], cam |-> cam]
        ELSE [fired |-> TRUE, sum |-> p.sum, apply_delta |-> p.apply_delta,
              speed |-> EffectiveSpeed(p.sum, cam.speed, p.apply_delta, snap.delta),
              cam |-> ApplyAction(cam, rule.action, p.sum, p.apply_delta, snap.delta)]

RECURSIVE RunRules(_, _, _, _, _)
\* for (input, action) in controller.inputs.0.clone(): the steps from rule i
\* on, in table order.
RunRules(cam, inputs, i, last_apply_delta, snap) ==
    IF i > Len(inputs) THEN <<>>
    ELSE LET step == RuleStep(cam, inputs[i], last_apply_delta, snap)
         IN  <<step>> \o RunRules(step.cam, inputs, i + 1, step.apply_delta, snap)

RECURSIVE TrailAfter(_, _, _, _)
\* The writes to controller.speed of lines 99 to 102, in the order the run
\* made them, from step i on.
TrailAfter(trail, inputs, run, i) ==
    IF i > Len(run) THEN trail
    ELSE LET action == inputs[i].action
             next == IF ~run[i].fired THEN trail
                     ELSE IF action.tag = "SetSpeed"
                         THEN [base |-> run[i].cam.speed, deltas |-> <<>>]
                     ELSE IF action.tag = "ChangeSpeed"
                         THEN [trail EXCEPT !.deltas = Append(@, action.x * run[i].sum)]
                     ELSE trail
         IN  TrailAfter(next, inputs, run, i + 1)

CamOf(c) == [speed |-> c.controller.speed,
             translation |-> c.transform.translation,
             rotation |-> c.transform.rotation]

\* ------------------------------------------------------------ the spring arm

\* A chain that reads the hits first and brings the ShapeCaster up to date
\* afterwards.
ChainResolverFirst ==
    << "update_camera_spring_arm",
       "update_camera_spring_arm_shape_raycaster",
       "update_camera_spring_arm_shape_raycaster",
       "update_camera_spring_arm_shape_caster_transform",
       "update_camera_spring_arm_shape_caster_transform" >>

\* A chain without the second update_camera_spring_arm_shape_caster_transform.
ChainEndsWithResolver ==
    << "update_camera_spring_arm_shape_raycaster",
       "update_camera_spring_arm_shape_raycaster",
       "update_camera_spring_arm_shape_caster_transform",
       "update_camera_spring_arm" >>

\* systems(PostUpdate)((..).chain()): the systems in the order they run.
Chain ==
    << "update_camera_spring_arm_shape_raycaster",
       "update_camera_spring_arm_shape_raycaster",
       "update_camera_spring_arm_shape_caster_transform",
       "update_camera_spring_arm",
       "update_camera_spring_arm_shape_caster_transform" >>

\* The places of the chain whose query has the filter Changed<CameraSpringArm>
\* and Changed<Transform>.  Each place is a system of its own, with its own
\* last-run tick.
SpringArmWatchers ==
    {p \in 1..Len(Chain) : Chain[p] = "update_camera_spring_arm_shape_raycaster"}
TransformWatchers ==
    {p \in 1..Len(Chain) : Chain[p] = "update_camera_spring_arm_shape_caster_transform"}

Neg3(a) == <<-a[1], -a[2], -a[3]>>

\* The body of update_camera_spring_arm_shape_raycaster (query_filter and
\* shape are passed on to the cast and read by nothing here).
RaycasterAfter(caster, camera) ==
    [caster EXCEPT !.max_time_of_impact = camera.distance, !.max_hits = 1]

\* The body of update_camera_spring_arm_shape_caster_transform.
CasterTransformAfter(caster, transform) ==
    [caster EXCEPT !.origin = Neg3(transform.translation),
                   !.direction = Neg3(transform.forward)]

\* The last hit of the list in place of the first.
TimeOfImpactLast(hits, camera) ==
    IF hits # <<>> THEN hits[Len(hits)] ELSE camera.distance

\* The configured distance whatever the hits.
TimeOfImpactDistanceOnly(hits, camera) == camera.distance

\* match hits.iter().next() { Some(hit) => hit.time_of_impact, None => distance }
TimeOfImpact(hits, camera) ==
    IF hits # <<>> THEN hits[1] ELSE camera.distance

\* transform.translation = shape_caster.direction * time_of_impact
PlacedTranslation(caster, time_of_impact) == Scale3(caster.direction, time_of_impact)

\* ShapeCaster::default() limits neither the length of the cast nor the
\* number of hits; every length and number the model has is below this one.
Unlimited == 1000

\* ShapeCaster::default(): nothing set, a cast that does not move.
ShapeCasterDefault ==
    [origin |-> Zero3, direction |-> Zero3,
     max_time_of_impact |-> Unlimited, max_hits |-> Unlimited]

\* The pub shape_caster of the bundle is the spawner's to fill in: the
\* default, or one that already has a direction.
ShapeCasters == {ShapeCasterDefault, [ShapeCasterDefault EXCEPT !.direction = X3]}

\* The ShapeHits of a cast: the obstacles the shape meets on its way, nearest
\* first, at most max_hits of them.  The shape travels max_time_of_impact
\* along the direction, and nowhere when there is no direction.
CastHits(caster, world) ==
    LET reach  == IF caster.direction = Zero3 THEN 0 ELSE caster.max_time_of_impact
        within == SelectSeq(world, LAMBDA d : d <= reach)
    IN  SubSeq(within, 1, IF Len(within) < caster.max_hits THEN Len(within)
                          ELSE caster.max_hits)

\* What the code outside the plugin may do to the entity and the world
\* between two frames: the configured distances, the forward vectors of the
\* entity's rotation, the obstacles.
Distances == {4, 10}
Forwards == {NEG_Z, X3}
Worlds == { <<>>, <<2, 5>>, <<8>> }

NotPlaced ==
    [ran |-> FALSE, hits |-> <<>>, distance |-> 0, caster |-> <<>>,
     time_of_impact |-> 0, answered |-> [caster |-> <<>>, world |-> <<>>, tick |-> 0],
     done |-> {}]

ArmInit ==
    /\ arm_tick = 0
    /\ arm_pc = Len(Chain) + 1
    /\ camera_spring_arm = [distance |-> 4]
    /\ shape_caster = ShapeCasterDefault
    /\ arm_transform = [translation |-> Zero3, forward |-> NEG_Z]
    /\ shape_hits = [present |-> FALSE, hits |-> <<>>]
    /\ changed_spring_arm = SpringArmWatchers
    /\ changed_transform = TransformWatchers
    /\ obstacles = <<>>
    /\ cast_done = TRUE
    /\ answered = [caster |-> <<>>, world |-> <<>>, tick |-> 0]
    /\ last_tick = [caster |-> shape_caster, camera |-> camera_spring_arm,
                    transform |-> arm_transform, world |-> obstacles]
    /\ placed = NotPlaced

\* ------------------------------------------------------------------ actions

Init ==
    /\ frame = 0
    /\ phase = "input"
    /\ keycodes = [pressed |-> {}, just_pressed |-> {}]
    /\ buttons = [pressed |-> {}, just_pressed |-> {}]
    /\ mouse_events = <<>>
    /\ wheel_events = <<>>
    /\ delta_seconds = 1
    /\ cameras = [e \in Cameras |->
            [controller |->
                [speed |-> IF e = "default" THEN F32(13421773, -27) ELSE F32(1, 0),
                 inputs |-> IF e = "default" THEN FlyCameraInputsDefault
                            ELSE FlyCameraInputsCustom],
             transform |-> [translation |-> TranslationZero,
                            rotation |-> QuatIdentity]]]
    /\ held_for = [k \in KeyCodes \cup MouseButtons |-> 0]
    /\ mouse_delta = <<0, 0>>
    /\ wheel_delta = <<0, 0>>
    /\ speed_trail = [e \in Cameras |->
                        [base |-> cameras[e].controller.speed, deltas |-> <<>>]]
    /\ before = [e \in Cameras |-> CamOf(cameras[e])]
    /\ log = [e \in Cameras |-> <<>>]
    /\ ArmInit

\* What may happen to the keyboard and the mouse buttons in one frame: nothing,
\* or one key or button goes down or comes up.
KeyEvents ==
    {[dev |-> "none", kind |-> "none", key |-> ""]}
    \cup [dev : {"key"}, kind : {"press", "release"}, key : KeyCodes]
    \cup [dev : {"button"}, kind : {"press", "release"}, key : MouseButtons]

\* Input::clear, then Input::press or Input::release for the frame's event.
InputAfter(input, ev, dev) ==
    IF ev.dev = dev /\ ev.kind = "press"
    THEN [pressed |-> input.pressed \cup {ev.key},
          just_pressed |-> {ev.key} \ input.pressed]
    ELSE IF ev.dev = dev /\ ev.kind = "release"
    THEN [pressed |-> input.pressed \ {ev.key}, just_pressed |-> {}]
    ELSE [pressed |-> input.pressed, just_pressed |-> {}]

\* The engine before Update: the keyboard and mouse input systems, the event
\* writers (mouse_events and wheel_events are what the two readers of
\* fly_camera_controller have not read yet) and the clock.
InputUpdate ==
    /\ phase = "input"
    /\ frame < MaxFrames
    /\ \E ev \in KeyEvents :
        /\ ev.kind = "press" => ev.key \notin keycodes.pressed \cup buttons.pressed
        /\ ev.kind = "release" => ev.key \in keycodes.pressed \cup buttons.pressed
        /\ keycodes' = InputAfter(keycodes, ev, "key")
        /\ buttons' = InputAfter(buttons, ev, "button")
    /\ held_for' = [k \in KeyCodes \cup MouseButtons |->
                      IF k \in keycodes'.pressed \cup buttons'.pressed
                      THEN held_for[k] + 1 ELSE 0]
    /\ \E f \in FrameChoices :
        /\ mouse_events' = mouse_events \o f.mouse
        /\ wheel_events' = wheel_events \o f.wheel
        /\ delta_seconds' = f.delta
    /\ phase' = "update"
    /\ UNCHANGED << frame, cameras, mouse_delta, wheel_delta, speed_trail,
                    before, log >>
    /\ UNCHANGED arm_vars

\* What the loop reads besides the camera: the input resources, the clock
\* and the two sums taken before the loop over the cameras.
Snapshot(mouse, wheel) ==
    [keycodes |-> keycodes, buttons |-> buttons,
     mouse_delta |-> mouse, wheel_delta |-> wheel, delta |-> delta_seconds]

\* The cameras in the order the query yields them.
QueryOrder == <<"default", "custom">>

\* No camera of the frame has been through the loop yet.
Untouched == [e \in Cameras |-> [cam |-> CamOf(cameras[e]), run |-> <<>>]]

\* The camera a run of the table leaves.
LastOf(cam, run) == IF run = <<>> THEN cam ELSE run[Len(run)].cam

RECURSIVE RunCamerasReadInLoop(_, _, _, _)
\* The two sums taken inside the loop over the cameras: the first camera
\* reads the events, and the cameras after it find the readers at their end.
RunCamerasReadInLoop(order, i, world, snap) ==
    IF i > Len(order) THEN world
    ELSE LET e    == order[i]
             seen == IF i = 1 THEN snap
                     ELSE [snap EXCEPT !.mouse_delta = <<0, 0>>,
                                       !.wheel_delta = <<0, 0>>]
             run  == RunRules(world[e].cam, cameras[e].controller.inputs, 1, TRUE, seen)
         IN  RunCamerasReadInLoop(order, i + 1,
                 [world EXCEPT ![e] = [cam |-> LastOf(world[e].cam, run), run |-> run]],
                 snap)

RECURSIVE RunCameras(_, _, _, _)
\* for (mut controller, mut transform) in &mut cameras: from the i-th camera
\* of `order` on, each camera runs its table on what the loop found before it.
RunCameras(order, i, world, snap) ==
    IF i > Len(order) THEN world
    ELSE LET e   == order[i]
             run == RunRules(world[e].cam, cameras[e].controller.inputs, 1, TRUE, snap)
         IN  RunCameras(order, i + 1,
                 [world EXCEPT ![e] = [cam |-> LastOf(world[e].cam, run), run |-> run]],
                 snap)

\* fn fly_camera_controller: both readers are read to their end, then every
\* camera runs its table.
fly_camera_controller ==
    /\ phase = "update"
    /\ mouse_delta' = SumVec2(mouse_events)
    /\ wheel_delta' = SumVec2(wheel_events)
    /\ mouse_events' = <<>>
    /\ wheel_events' = <<>>
    /\ \E world \in {RunCameras(QueryOrder, 1, Untouched,
                               Snapshot(SumVec2(mouse_events), SumVec2(wheel_events)))} :
           /\ cameras' = [e \in Cameras |->
                [controller |-> [cameras[e].controller EXCEPT !.speed = world[e].cam.speed],
                 transform |-> [translation |-> world[e].cam.translation,
                                rotation |-> world[e].cam.rotation]]]
           /\ speed_trail' = [e \in Cameras |->
                TrailAfter(speed_trail[e], cameras[e].controller.inputs, world[e].run, 1)]
           /\ log' = [e \in Cameras |-> world[e].run]
    /\ before' = [e \in Cameras |-> CamOf(cameras[e])]
    /\ phase' = "input"
    /\ frame' = frame + 1
    /\ UNCHANGED << keycodes, buttons, delta_seconds, held_for >>
    /\ UNCHANGED arm_vars

Next == InputUpdate \/ fly_camera_controller

Spec == Init /\ [][Next]_vars

\* ---------------------------------------------------- the spring arm's frame

\* Everything before PostUpdate: the frame that ended is kept for reference,
\* and code outside the plugin may set the distance, turn the entity and move
\* the obstacles.  Before the first frame it spawns the bundle.
ArmUpdate ==
    /\ arm_pc = Len(Chain) + 1
    /\ arm_tick < MaxTicks
    /\ last_tick' = [caster |-> shape_caster, camera |-> camera_spring_arm,
                     transform |-> arm_transform, world |-> obstacles]
    /\ \E d \in Distances, f \in Forwards, w \in Worlds :
        /\ camera_spring_arm' = [camera_spring_arm EXCEPT !.distance = d]
        /\ changed_spring_arm' = IF d # camera_spring_arm.distance
                                 THEN SpringArmWatchers ELSE changed_spring_arm
        /\ arm_transform' = [arm_transform EXCEPT !.forward = f]
        /\ changed_transform' = IF f # arm_transform.forward
                                THEN TransformWatchers ELSE changed_transform
        /\ obstacles' = w
    /\ arm_tick' = arm_tick + 1
    /\ arm_pc' = 1
    /\ cast_done' = FALSE
    /\ placed' = NotPlaced
    /\ IF arm_tick = 0
       THEN \E caster \in ShapeCasters : shape_caster' = caster
       ELSE UNCHANGED shape_caster
    /\ UNCHANGED << shape_hits, answered >>
    /\ UNCHANGED fly_vars

\* fn update_camera_spring_arm_shape_raycaster, at either of its two places.
update_camera_spring_arm_shape_raycaster ==
    /\ arm_pc <= Len(Chain)
    /\ Chain[arm_pc] = "update_camera_spring_arm_shape_raycaster"
    /\ shape_caster' = IF arm_pc \in changed_spring_arm
                       THEN RaycasterAfter(shape_caster, camera_spring_arm)
                       ELSE shape_caster
    /\ changed_spring_arm' = changed_spring_arm \ {arm_pc}
    /\ arm_pc' = arm_pc + 1
    /\ UNCHANGED << arm_tick, camera_spring_arm, arm_transform, shape_hits,
                    changed_transform, obstacles, cast_done, answered,
                    last_tick, placed >>
    /\ UNCHANGED fly_vars

\* fn update_camera_spring_arm_shape_caster_transform, at either of its two
\* places (the Local and the gizmo ray are drawn output only).
update_camera_spring_arm_shape_caster_transform ==
    /\ arm_pc <= Len(Chain)
    /\ Chain[arm_pc] = "update_camera_spring_arm_shape_caster_transform"
    /\ shape_caster' = IF arm_pc \in changed_transform
                       THEN CasterTransformAfter(shape_caster, arm_transform)
                       ELSE shape_caster
    /\ changed_transform' = changed_transform \ {arm_pc}
    /\ arm_pc' = arm_pc + 1
    /\ UNCHANGED << arm_tick, camera_spring_arm, arm_transform, shape_hits,
                    changed_spring_arm, obstacles, cast_done, answered,
                    last_tick, placed >>
    /\ UNCHANGED fly_vars

\* fn update_camera_spring_arm: the query matches the entity once it has a
\* ShapeHits; writing through &mut Transform marks the Transform changed.
update_camera_spring_arm ==
    /\ arm_pc <= Len(Chain)
    /\ Chain[arm_pc] = "update_camera_spring_arm"
    /\ IF shape_hits.present
       THEN LET time_of_impact == TimeOfImpact(shape_hits.hits, camera_spring_arm)
            IN  /\ arm_transform' =
                      [arm_transform EXCEPT
                          !.translation = PlacedTranslation(shape_caster, time_of_impact)]
                /\ changed_transform' = TransformWatchers
                /\ placed' = [ran |-> TRUE, hits |-> shape_hits.hits,
                              distance |-> camera_spring_arm.distance,
                              caster |-> shape_caster,
                              time_of_impact |-> time_of_impact,
                              answered |-> answered,
                              done |-> {Chain[p] : p \in 1..(arm_pc - 1)}]
       ELSE UNCHANGED << arm_transform, changed_transform, placed >>
    /\ arm_pc' = arm_pc + 1
    /\ UNCHANGED << arm_tick, camera_spring_arm, shape_caster, shape_hits,
                    changed_spring_arm, obstacles, cast_done, answered, last_tick >>
    /\ UNCHANGED fly_vars

\* The shape cast of the physics engine: at most once in a frame (its fixed
\* timestep may skip a frame) it answers the ShapeCaster as it finds it and
\* writes the ShapeHits.  The plugin orders
\* its five systems among themselves only, so the cast may come before the
\* first of them, between any two, or after the last.
shapecast ==
    /\ ~cast_done
    /\ shape_hits' = [present |-> TRUE, hits |-> CastHits(shape_caster, obstacles)]
    /\ answered' = [caster |-> shape_caster, world |-> obstacles, tick |-> arm_tick]
    /\ cast_done' = TRUE
    /\ UNCHANGED << arm_tick, arm_pc, camera_spring_arm, shape_caster,
                    arm_transform, changed_spring_arm, changed_transform,
                    obstacles, last_tick, placed >>
    /\ UNCHANGED fly_vars

NextArm ==
    \/ ArmUpdate
    \/ update_camera_spring_arm_shape_raycaster
    \/ update_camera_spring_arm_shape_caster_transform
    \/ update_camera_spring_arm
    \/ shapecast

SpecArm == Init /\ [][NextArm]_vars

\* ------------------------------------------------- reading the last frame

\* The system has run at least once and the engine has not yet touched the
\* input of that frame: keycodes, buttons and delta_seconds are those the
\* last run read, mouse_delta and wheel_delta the sums it took.
Ran == phase = "input" /\ frame > 0

Inputs(e) == cameras[e].controller.inputs
Rules(e) == 1..Len(Inputs(e))

\* The camera as rule i of the last frame found it.
CamBefore(e, i) == IF i = 1 THEN before[e] ELSE log[e][i - 1].cam

IsKey(cond) == cond.tag \in {"KeyCode", "MouseButton"}
Device(cond) == IF cond.tag = "KeyCode" THEN keycodes ELSE buttons

\* A condition that contributes nothing this frame.
Absent(cond) ==
    /\ IsKey(cond)
    /\ IF cond.first_frame THEN cond.key \notin Device(cond).just_pressed
       ELSE cond.key \notin Device(cond).pressed
HasAbsent(input) == \E j \in 1..Len(input) : Absent(input[j])

\* What a condition that is not absent contributes.
Contribution(cond) ==
    CASE IsKey(cond) -> 1
      [] cond.tag = "MouseMoveX" -> mouse_delta[1]
      [] cond.tag = "MouseMoveY" -> mouse_delta[2]
      [] cond.tag = "ScrollX" -> wheel_delta[1]
      [] cond.tag = "ScrollY" -> wheel_delta[2]

RECURSIVE Resolved(_)
\* The resolved value of a rule none of whose conditions is absent.
Resolved(input) ==
    IF input = <<>> THEN 1 ELSE Contribution(Head(input)) * Resolved(Tail(input))

\* The keys and buttons a condition set has an edge-triggered condition on.
EdgeKeys(input) ==
    {input[j].key : j \in {n \in 1..Len(input) : IsKey(input[n]) /\ input[n].first_frame}}
Instantaneous(input) == EdgeKeys(input) # {}

\* -------------------------------------------------------------------- C1

\* C1: a rule with a level-triggered condition on a key or button that is
\* not held, or an edge-triggered condition on one that was not newly
\* pressed this frame, is skipped: its action is not applied, and the
\* camera's speed, translation and rotation after the rule are those before
\* it.
C1_AbsentSkipsRule ==
    Ran => \A e \in Cameras : \A i \in Rules(e) :
        HasAbsent(Inputs(e)[i].input) =>
            /\ ~log[e][i].fired
            /\ log[e][i].cam = CamBefore(e, i)

\* A rule whose first condition is present and whose second is absent was
\* passed over, on a camera that an earlier rule of the same frame had moved.
C1_SkippedAfterPresent ==
    /\ Ran
    /\ \E e \in Cameras : \E i \in Rules(e) :
        LET input == Inputs(e)[i].input
        IN  /\ Len(input) >= 2
            /\ IsKey(input[1]) /\ ~Absent(input[1]) /\ Absent(input[2])
            /\ CamBefore(e, i) # before[e]
            /\ log[e][i].cam = CamBefore(e, i)

\* -------------------------------------------------------------------- C2

\* C2: a rule that fires uses the scalar resolved * speed * dt when none of
\* its conditions is edge-triggered and resolved * speed * 1.0 when at least
\* one is, speed being the controller's speed as the rule finds it; MoveLocal
\* and MoveGlobal displace by their vector times that scalar.  The flag is
\* per rule: an edge-triggered rule leaves the rules after it time-scaled.
C2_EffectiveScalar ==
    Ran => \A e \in Cameras : \A i \in Rules(e) :
        LET rule == Inputs(e)[i]
            cam == CamBefore(e, i)
            factor == IF Instantaneous(rule.input) THEN OneSecond ELSE delta_seconds
            coef == Resolved(rule.input) * factor
            orientation == IF rule.action.tag = "MoveLocal"
                           THEN ToEuler(cam.rotation) ELSE QuatIdentity
        IN  log[e][i].fired =>
              /\ log[e][i].speed = [coef |-> coef, speed |-> cam.speed]
              /\ rule.action.tag \in {"MoveLocal", "MoveGlobal"} =>
                    log[e][i].cam.translation =
                        AddTerm(cam.translation, cam.speed, orientation,
                                Scale3(rule.action.v, coef))

\* In one frame whose dt is not 1 s, an edge-triggered rule fired and a
\* level-only movement rule fired after it.
C2_EdgeThenLevel ==
    /\ Ran
    /\ delta_seconds # OneSecond
    /\ \E e \in Cameras : \E i, j \in Rules(e) :
        /\ i < j
        /\ log[e][i].fired /\ Instantaneous(Inputs(e)[i].input)
        /\ log[e][j].fired /\ ~Instantaneous(Inputs(e)[j].input)
        /\ Inputs(e)[j].action.tag \in {"MoveLocal", "MoveGlobal"}
        /\ log[e][j].cam.translation # CamBefore(e, j).translation

\* -------------------------------------------------------------------- C3

\* The frames a key or button has been down for; a key the keyboard of the
\* model does not have is never down.
HeldFor(k) == IF k \in DOMAIN held_for THEN held_for[k] ELSE 0

\* Every condition of the set that is not edge-triggered is present.
OthersPresent(input) ==
    \A j \in 1..Len(input) : ~input[j].first_frame => ~Absent(input[j])

\* C3: over one continuous hold of a key or button, a rule with an
\* edge-triggered condition on it fires on no frame but the one of the
\* released-to-pressed transition, and on that frame it fires exactly when
\* the other conditions of the rule are present; so it fires at most once
\* per hold, and exactly once when it has no other condition.
C3_EdgeOnTransitionOnly ==
    Ran => \A e \in Cameras : \A i \in Rules(e) :
        LET input == Inputs(e)[i].input
        IN  Instantaneous(input) =>
              (log[e][i].fired <=>
                  /\ \A k \in EdgeKeys(input) : HeldFor(k) = 1
                  /\ OthersPresent(input))

\* C3 as stated: a rule with an edge-triggered condition on a key or button
\* fires on the transition frame of every hold of it, and on no other.
C3_ExactlyOncePerHold ==
    Ran => \A e \in Cameras : \A i \in Rules(e) :
        \A k \in EdgeKeys(Inputs(e)[i].input) :
            log[e][i].fired <=> HeldFor(k) = 1

\* W is in the second frame of a hold: the default W rule does not fire now,
\* and the translation holds the one nudge of 5 * speed it made.
C3_HeldSecondFrame ==
    /\ Ran
    /\ held_for["W"] = 2
    /\ ~log["default"][13].fired
    /\ \E key \in DOMAIN cameras["default"].transform.translation :
          cameras["default"].transform.translation[key] = Scale3(NEG_Z, 5 * OneSecond)

\* -------------------------------------------------------------------- C4

\* What is observable of a camera: its speed, its translation and the
\* orientation its rotation stands for.
Observable(cam) ==
    [speed |-> cam.speed, translation |-> cam.translation,
     orientation |-> ToEuler(cam.rotation)]

\* The camera a table leaves when it runs on `cam` with the last frame's input.
EndOfFrame(cam, inputs) ==
    LET run == RunRules(cam, inputs, 1, TRUE, Snapshot(mouse_delta, wheel_delta))
    IN  run[Len(run)].cam

Fired(e) == {i \in Rules(e) : log[e][i].fired}
Bijections(S) == {p \in [S -> S] : \A a, b \in S : p[a] = p[b] => a = b}

\* The orderings of a camera's table that are tried: the table reversed, and
\* every permutation of the rules that fired among their places (by C1 a rule
\* that is skipped does nothing wherever it stands).
Orderings(e) ==
    LET inputs == Inputs(e)
        n == Len(inputs)
    IN  {[i \in 1..n |-> inputs[n + 1 - i]]}
        \cup {[i \in 1..n |-> IF i \in Fired(e) THEN inputs[p[i]] ELSE inputs[i]] :
                p \in Bijections(Fired(e))}

\* No rule of the last frame changed the speed or the orientation it found.
NoFieldWritten(e) ==
    \A i \in Rules(e) :
        /\ log[e][i].cam.speed = before[e].speed
        /\ ToEuler(log[e][i].cam.rotation) = ToEuler(before[e].rotation)

\* C4: with the default table, on a frame in which no rule changes the speed
\* or the rotation, the speed, translation and orientation at the end of the
\* frame are the same for every ordering of the table's rules.
C4_OrderFreeWhenNoFieldWritten ==
    (Ran /\ NoFieldWritten("default")) =>
        \A table \in Orderings("default") :
            Observable(EndOfFrame(before["default"], table))
                = Observable(CamOf(cameras["default"]))

\* C4 as stated: with the default table the end of every frame is the same
\* for every ordering of the rules.
C4_OrderFreeAlways ==
    Ran => \A table \in Orderings("default") :
            Observable(EndOfFrame(before["default"], table))
                = Observable(CamOf(cameras["default"]))

\* Two movement rules of the default table fired in a frame that changed
\* neither speed nor rotation.
C4_TwoMovesFired ==
    /\ Ran
    /\ NoFieldWritten("default")
    /\ \E i, j \in Fired("default") :
        /\ i # j
        /\ Inputs("default")[i].action.tag = "MoveLocal"
        /\ Inputs("default")[j].action.tag = "MoveLocal"
    /\ cameras["default"].transform.translation # before["default"].translation

\* -------------------------------------------------------------------- C5

\* The rules of the default table that move along the local forward axis on
\* the forward key: the base rule and the boosted rule.
ForwardRules ==
    {i \in Rules("default") :
        /\ Inputs("default")[i].input[1] = KeyCodeInput("Z", FALSE)
        /\ Inputs("default")[i].action.tag = "MoveLocal"}

\* Z and ShiftLeft are held and nothing else fires that a key or a button
\* gates (the rule on the scroll axis alone fires on every frame).
ForwardAndBoostOnly ==
    /\ {"Z", "ShiftLeft"} \subseteq keycodes.pressed
    /\ \A i \in Fired("default") \ ForwardRules :
          \A j \in 1..Len(Inputs("default")[i].input) :
              ~IsKey(Inputs("default")[i].input[j])

\* C5: with the default table, when the forward key and the boost key are
\* both held and no other key or button rule fires, the base rule and the
\* boosted rule both fire and the frame displaces the camera by
\* 3 * dt * speed along its local forward axis.
C5_BaseAndBoostSum ==
    (Ran /\ ForwardAndBoostOnly) =>
        /\ ForwardRules \subseteq Fired("default")
        /\ Cardinality(ForwardRules) = 2
        /\ cameras["default"].transform.translation =
              AddTerm(before["default"].translation, before["default"].speed,
                      ToEuler(before["default"].rotation),
                      Scale3(NEG_Z, 3 * delta_seconds))

\* Forward and boost held on a long frame, after a frame that had moved the
\* camera already.
C5_BoostedFrame ==
    /\ Ran
    /\ ForwardAndBoostOnly
    /\ delta_seconds = 2
    /\ before["default"].translation # TranslationZero
    /\ cameras["default"].transform.translation # before["default"].translation

\* -------------------------------------------------------------------- C6

\* C6: a SetSpeed(target) rule that fires with resolved value 1 leaves the
\* speed equal to target, bit for bit, whatever the speed was.
C6_SetSpeedExact ==
    Ran => \A e \in Cameras : \A i \in Rules(e) :
        LET rule == Inputs(e)[i]
        IN  (/\ log[e][i].fired
             /\ rule.action.tag = "SetSpeed"
             /\ Resolved(rule.input) = 1)
            => log[e][i].cam.speed = rule.action.x

\* A SetSpeed rule fired with resolved value 1 on a speed that earlier
\* ChangeSpeed applications had moved away from where it started.
C6_SetAfterChange ==
    /\ Ran
    /\ \E e \in Cameras : \E i \in Rules(e) :
        /\ log[e][i].fired
        /\ Inputs(e)[i].action.tag = "SetSpeed"
        /\ Resolved(Inputs(e)[i].input) = 1
        /\ CamBefore(e, i).speed \notin {Inputs(e)[i].action.x, F32(13421773, -27), F32(1, 0)}
        /\ cameras[e].controller.speed = Inputs(e)[i].action.x

\* -------------------------------------------------------------------- C7

RECURSIVE SumSeq(_)
SumSeq(ds) == IF ds = <<>> THEN 0 ELSE Head(ds) + SumSeq(Tail(ds))

RECURSIVE ApplyDeltas(_, _)
\* speed after one (ln + 0.05 * d).exp() for each d of ds, first to last.
ApplyDeltas(speed, ds) ==
    IF ds = <<>> THEN speed
    ELSE ApplyDeltas(F32ExpLnAdd(speed, Head(ds)), Tail(ds))

ReverseSeq(ds) == [i \in 1..Len(ds) |-> ds[Len(ds) + 1 - i]]

\* The distance of two positive f32 in units in the last place.
Ulps(a, b) == Abs(a - b)

\* C7: ChangeSpeed is additive in log-space up to f32 rounding: after n
\* applications with log-deltas d_1 .. d_n to a positive speed_0 the speed is
\* within 4 * n units in the last place of exp(ln(speed_0) + d_1 +
\* .. + d_n) taken in one step, and of the speed the same applications give
\* in the opposite order.
C7_LogAdditiveWithinRounding ==
    Ran => \A e \in Cameras :
        LET trail == speed_trail[e]
            n == Len(trail.deltas)
            speed == cameras[e].controller.speed
        IN  trail.base > 0 =>
              /\ speed = ApplyDeltas(trail.base, trail.deltas)
              /\ Ulps(speed, F32ExpLnAdd(trail.base, SumSeq(trail.deltas)))
                    <= 4 * n
              /\ Ulps(speed, ApplyDeltas(trail.base, ReverseSeq(trail.deltas)))
                    <= 4 * n

\* C7 as stated: the speed is exactly exp(ln(speed_0) + d_1 + .. + d_n), and
\* exactly what the opposite order gives.
C7_LogAdditiveExactly ==
    Ran => \A e \in Cameras :
        LET trail == speed_trail[e]
            speed == cameras[e].controller.speed
        IN  trail.base > 0 =>
              /\ speed = F32ExpLnAdd(trail.base, SumSeq(trail.deltas))
              /\ speed = ApplyDeltas(trail.base, ReverseSeq(trail.deltas))

\* Two ChangeSpeed applications with different log-deltas, neither zero,
\* were made one after the other to a positive speed.
C7_TwoDifferentDeltas ==
    /\ Ran
    /\ \E e \in Cameras :
        LET ds == speed_trail[e].deltas
        IN  /\ speed_trail[e].base > 0
            /\ Len(ds) = 2
            /\ ds[1] # 0 /\ ds[2] # 0 /\ ds[1] # ds[2]
            /\ cameras[e].controller.speed # speed_trail[e].base

\* -------------------------------------------------------------------- C8

\* The frame times and the speeds a frame is run again with.
OtherDeltas == {1, 2, 3}
OtherSpeeds == {F32(1, 0), F32(1, 1), F32(5, -4), F32(13421773, -27)}

\* C8: a frame run again from the same camera with the same input and another
\* frame time ends with the same speed and the same rotation; a RotateEuler
\* rule run again on another speed gives the same rotation, and a SetSpeed
\* rule run again on another speed gives the same speed.
C8_RateAndSpeedFree ==
    Ran => \A e \in Cameras :
        /\ \A d \in OtherDeltas :
            LET run == RunRules(before[e], Inputs(e), 1, TRUE,
                                [Snapshot(mouse_delta, wheel_delta) EXCEPT !.delta = d])
                cam == run[Len(run)].cam
            IN  /\ cam.speed = cameras[e].controller.speed
                /\ cam.rotation = cameras[e].transform.rotation
        /\ \A i \in Fired(e) : \A s \in OtherSpeeds :
            LET rule == Inputs(e)[i]
                again == RuleStep([CamBefore(e, i) EXCEPT !.speed = s], rule, TRUE,
                                  Snapshot(mouse_delta, wheel_delta))
            IN  /\ rule.action.tag = "RotateEuler" =>
                      again.cam.rotation = log[e][i].cam.rotation
                /\ rule.action.tag = "SetSpeed" =>
                      again.cam.speed = log[e][i].cam.speed

\* On a long frame a RotateEuler rule turned the camera, a SetSpeed rule
\* wrote a speed and a ChangeSpeed rule scaled one.
C8_AllThreeOnLongFrame ==
    /\ Ran
    /\ delta_seconds = 2
    /\ \E e \in Cameras : \E i \in Fired(e) :
        /\ Inputs(e)[i].action.tag = "RotateEuler"
        /\ log[e][i].cam.rotation # CamBefore(e, i).rotation
    /\ \E e \in Cameras : \E i \in Fired(e) :
        /\ Inputs(e)[i].action.tag = "SetSpeed"
        /\ log[e][i].cam.speed # CamBefore(e, i).speed
    /\ \E e \in Cameras : \E i \in Fired(e) :
        /\ Inputs(e)[i].action.tag = "ChangeSpeed"
        /\ log[e][i].cam.speed # CamBefore(e, i).speed

\* -------------------------------------------------------------------- C9

AxisOnly(input) == \A j \in 1..Len(input) : ~IsKey(input[j])
AllAxesZero(input) == \A j \in 1..Len(input) : Contribution(input[j]) = 0

\* C9: a rule with axis conditions only fires on every frame; when all its
\* axis deltas are zero it resolves to 0, MoveLocal and MoveGlobal leave the
\* translation as it was, and ChangeSpeed leaves a positive speed as it was.
C9_AxisOnlyZeroIsNoChange ==
    Ran => \A e \in Cameras : \A i \in Rules(e) :
        LET rule == Inputs(e)[i]
        IN  AxisOnly(rule.input) =>
              /\ log[e][i].fired
              /\ AllAxesZero(rule.input) =>
                    /\ log[e][i].sum = 0
                    /\ rule.action.tag \in {"MoveLocal", "MoveGlobal"} =>
                          log[e][i].cam.translation = CamBefore(e, i).translation
                    /\ (rule.action.tag = "ChangeSpeed" /\ CamBefore(e, i).speed > 0) =>
                          log[e][i].cam.speed = CamBefore(e, i).speed

\* ------------------------------------------------------------------- C10

NumberKeys ==
    <<"Key0", "Key1", "Key2", "Key3", "Key4", "Key5", "Key6", "Key7", "Key8", "Key9">>

\* The SetSpeed target the default table of the camera binds number key n to.
NumberKeyTarget(n) ==
    LET inputs == Inputs("default")
        i == CHOOSE r \in 1..Len(inputs) :
                /\ inputs[r].input = <<KeyCodeInput(NumberKeys[n + 1], TRUE)>>
                /\ inputs[r].action.tag = "SetSpeed"
    IN  inputs[i].action.x

RECURSIVE Pow2(_)
Pow2(n) == IF n = 0 THEN 1 ELSE 2 * Pow2(n - 1)

\* 32 times the value of a positive f32 below 2^19 that is a multiple of 1/32.
Times32(bits) ==
    LET mant == (bits % TwoTo23) + TwoTo23
        exp == (bits \div TwoTo23) - 150
    IN  mant \div Pow2(-(exp + 5))

\* C10: the SetSpeed targets of Key0 .. Key9 in the default table increase
\* strictly with the key index, and consecutive targets have one ratio.
C10_GeometricIncreasing ==
    /\ \A i, j \in 0..9 : i < j => NumberKeyTarget(i) < NumberKeyTarget(j)
    /\ \A i \in 1..8 :
          Times32(NumberKeyTarget(i + 1)) * Times32(NumberKeyTarget(i - 1))
              = Times32(NumberKeyTarget(i)) * Times32(NumberKeyTarget(i))

\* ------------------------------------------------------------------- C11

\* The least element of a non-empty sequence of numbers.
MinOf(seq) ==
    CHOOSE m \in {seq[i] : i \in 1..Len(seq)} : \A i \in 1..Len(seq) : m <= seq[i]

\* C11: when update_camera_spring_arm has placed the entity, the distance it
\* chose is that of the nearest hit if the hit list was not empty and the
\* configured distance if it was, and the translation is the cast direction
\* times that distance, whatever the translation was before.
C11_NearestHitElseDistance ==
    placed.ran =>
        /\ placed.time_of_impact =
              IF placed.hits = <<>> THEN placed.distance ELSE MinOf(placed.hits)
        /\ arm_transform.translation =
              Scale3(placed.caster.direction, placed.time_of_impact)

\* Hits at 2 and 5 with a configured distance of 10: the entity was placed at
\* 2 along the cast direction, from another translation.
C11_TwoHitsNearestTaken ==
    /\ placed.ran
    /\ placed.hits = <<2, 5>>
    /\ placed.distance = 10
    /\ arm_transform.translation = Scale3(placed.caster.direction, 2)
    /\ arm_transform.translation # last_tick.transform.translation

\* ------------------------------------------------------------------- C12

\* C12: the hit list update_camera_spring_arm consumes in a frame is the
\* answer to the ShapeCaster as it stood when the frame before ended, in the
\* world as it then was; nothing written or moved in the frame itself has a
\* part in it.
C12_HitsAnswerLastFramesRequest ==
    placed.ran => placed.hits = CastHits(last_tick.caster, last_tick.world)

\* ------------------------------------------------------------------- C13

\* C13: when update_camera_spring_arm consults the hit list, both
\* update_camera_spring_arm_shape_raycaster and
\* update_camera_spring_arm_shape_caster_transform have run in that frame,
\* and the ShapeCaster holds the configured distance and the negated forward
\* vector of that frame.
C13_RequestUpdatedBeforeRead ==
    placed.ran =>
        /\ "update_camera_spring_arm_shape_raycaster" \in placed.done
        /\ "update_camera_spring_arm_shape_caster_transform" \in placed.done
        /\ placed.caster.max_time_of_impact = placed.distance
        /\ placed.caster.direction = Neg3(arm_transform.forward)

\* The hit list was consulted in a frame that changed both the configured
\* distance and the forward vector.
C13_ReadAfterBothChanged ==
    /\ placed.ran
    /\ placed.distance # last_tick.camera.distance
    /\ arm_transform.forward # last_tick.transform.forward
    /\ arm_tick >= 2

\* ------------------------------------------------------------------- C14

\* C14: the distance used is not negative; without a hit it is the configured
\* distance, and with a hit it is at most the max_time_of_impact of the
\* ShapeCaster that the consumed hits answered.
C14_WithinAnsweredLimit ==
    placed.ran =>
        /\ placed.time_of_impact >= 0
        /\ placed.hits = <<>> => placed.time_of_impact = placed.distance
        /\ placed.hits # <<>> =>
              placed.time_of_impact <= placed.answered.caster.max_time_of_impact

\* C14 as stated: in every frame the distance used lies between 0 and the
\* distance configured in that frame.
C14_WithinConfiguredDistance ==
    placed.ran =>
        /\ placed.time_of_impact >= 0
        /\ placed.time_of_impact <= camera_spring_arm.distance

\* The distance was lowered in this frame and the entity was placed at a hit
\* beyond it, found by a cast that an earlier frame ran with the old limit.
C14_StaleHitBeyondLoweredDistance ==
    /\ placed.ran
    /\ placed.distance < last_tick.camera.distance
    /\ placed.hits # <<>>
    /\ placed.time_of_impact > placed.distance
    /\ placed.answered.tick < arm_tick
    /\ placed.answered.caster.max_time_of_impact = last_tick.camera.distance

\* ------------------------------------------------------------------- C16

\* The frame's chain has run to its end and update_camera_spring_arm placed
\* the entity in it.
PlacedFrameEnded == arm_pc = Len(Chain) + 1 /\ placed.ran

\* C16: at the end of a frame in which update_camera_spring_arm placed the
\* entity, the ShapeCaster's origin is the negation of the translation just
\* written (the old cast direction times the distance chosen) and its
\* direction is the negation of the forward vector.
C16_RequestFollowsPlacement ==
    PlacedFrameEnded =>
        /\ shape_caster.origin = Neg3(arm_transform.translation)
        /\ shape_caster.origin =
              Neg3(Scale3(placed.caster.direction, placed.time_of_impact))
        /\ shape_caster.direction = Neg3(arm_transform.forward)

\* A frame ended with the origin at the negated placement of a hit at 2,
\* away from where the origin was when the frame before ended.
C16_OriginMovedWithHit ==
    /\ PlacedFrameEnded
    /\ placed.hits # <<>>
    /\ placed.time_of_impact = 2
    /\ shape_caster.origin # last_tick.caster.origin
    /\ shape_caster.origin # Zero3

\* ------------------------------------------------------------------- C15

\* Every order in which the query may yield the cameras.
CameraOrders ==
    {o \in [1..Cardinality(Cameras) -> Cameras] : \A e \in Cameras : \E i \in DOMAIN o : o[i] = e}

\* The sum of one component of a frame's events.
SumOfComponent(events, c) == SumSeq([i \in 1..Len(events) |-> events[i][c]])

\* C15: when fly_camera_controller runs, its two sums are those of every event
\* not read so far and the readers are left at their end, so that an event is
\* in the sum of one frame and of no other; and whichever order the cameras
\* are taken in, every rule of every camera ran on these same sums and every
\* camera ends the frame in the same state.
C15_SummedOnceSharedOrderFree ==
    [][phase = "update" =>
        /\ mouse_delta' = <<SumOfComponent(mouse_events, 1), SumOfComponent(mouse_events, 2)>>
        /\ wheel_delta' = <<SumOfComponent(wheel_events, 1), SumOfComponent(wheel_events, 2)>>
        /\ mouse_events' = <<>>
        /\ wheel_events' = <<>>
        /\ \A order \in CameraOrders :
              LET world == RunCameras(order, 1, Untouched,
                                      Snapshot(mouse_delta', wheel_delta'))
              IN  \A e \in Cameras :
                    /\ log'[e] = world[e].run
                    /\ CamOf(cameras'[e]) = world[e].cam
    ]_vars

\* A frame with two pointer events and two scroll events has run, and a rule
\* on the sums fired on each of the two cameras and changed it.
C15_BothCamerasUsedTheSums ==
    /\ Ran
    /\ mouse_delta = <<3, 800>>
    /\ wheel_delta = <<1, -2>>
    /\ mouse_events = <<>>
    /\ wheel_events = <<>>
    /\ \A e \in Cameras :
          /\ CamOf(cameras[e]) # before[e]
          /\ \E i \in Rules(e) :
                /\ log[e][i].fired
                /\ \E j \in 1..Len(Inputs(e)[i].input) : ~IsKey(Inputs(e)[i].input[j])
                /\ log[e][i].cam # CamBefore(e, i)

\* ------------------------------------------------------------------- C17

\* C17: a MoveLocal or MoveGlobal rule that fired left rotation and speed as
\* it found them, a RotateEuler rule translation and speed, a ChangeSpeed
\* or SetSpeed rule translation and rotation; the tables are those the
\* cameras were spawned with; and a camera none of whose ChangeSpeed and
\* SetSpeed rules fired in the frame ends it with the speed it started with.
C17_ActionWritesItsFieldOnly ==
    Ran => \A e \in Cameras :
        /\ \A i \in Fired(e) :
              LET found == CamBefore(e, i)
                  left  == log[e][i].cam
                  tag   == Inputs(e)[i].action.tag
              IN  /\ tag \in {"MoveLocal", "MoveGlobal"} =>
                        left.rotation = found.rotation /\ left.speed = found.speed
                  /\ tag = "RotateEuler" =>
                        left.translation = found.translation /\ left.speed = found.speed
                  /\ tag \in {"ChangeSpeed", "SetSpeed"} =>
                        left.translation = found.translation /\ left.rotation = found.rotation
        /\ Inputs(e) = IF e = "default" THEN FlyCameraInputsDefault
                       ELSE FlyCameraInputsCustom
        /\ (\A i \in Fired(e) : Inputs(e)[i].action.tag \notin {"ChangeSpeed", "SetSpeed"})
              => cameras[e].controller.speed = before[e].speed

\* On the custom camera a move and a rotation fired and changed translation
\* and rotation, no rule on the speed fired, and the speed is as it was.
C17_MovedAndTurnedSpeedKept ==
    /\ Ran
    /\ \E i, j \in Fired("custom") :
          /\ Inputs("custom")[i].action.tag \in {"MoveLocal", "MoveGlobal"}
          /\ Inputs("custom")[j].action.tag = "RotateEuler"
    /\ \A i \in Fired("custom") :
          Inputs("custom")[i].action.tag \notin {"ChangeSpeed", "SetSpeed"}
    /\ cameras["custom"].transform.translation # before["custom"].translation
    /\ cameras["custom"].transform.rotation # before["custom"].rotation
    /\ cameras["custom"].controller.speed = before["custom"].speed

====
